---- MODULE Spec2Model ----
(***************************************************************************)
(* DSC Keybus Reader IP (esp32): the bridging loop of KeybusReaderIP.ino.  *)
(* loop() polls the Keybus decoder, accepts one telnet client at a time,   *)
(* forwards the client's bytes to the decoder as keystrokes (dropping      *)
(* telnet negotiation) and prints the decoded Keybus data to the client.   *)
(*                                                                         *)
(* The sketch's loop is cut at its statements: pc names the source line    *)
(* the loop executes next.  The decoder (dscKeybusInterface), the TCP      *)
(* server and the remote client are the environment.                       *)
(***************************************************************************)
EXTENDS Integers, Sequences, FiniteSets

\* ---------------------------------------------------------------- bounds
MaxSessions == 2      \* connections the clients open in one run
MaxEvents == 2        \* panel and module events the decoder produces
MaxOverflows == 1     \* times the decoder raises bufferOverflow
MaxUnnotified == 2    \* Keybus transitions the decoder reports before one is notified
MaxBytes == 1         \* bytes one client sends in one session (Spec)
MaxKeyBytes == 4      \* bytes one client sends in one session (KeySpec)
MaxCalm == 1          \* events, and Keybus transitions, the decoder reports (FairSpec)
StampWindow == 10     \* milliseconds looked at on each side of a padding threshold

\* ------------------------------------------------------------- constants
IAC == 255            \* 0xFF, the telnet negotiation marker
NegotiationLen == 3   \* bytes the loop reads for one negotiation sequence
Bytes == {255, 251, 49, 50}   \* 0xFF, 0xFB (WILL), '1', '2'
OneKey == {49}                \* '1'

VARIABLES
  pc,               \* source line loop() executes next
  ipClient,         \* the session's socket: 0 = none, else the connection's number
  newClient,        \* static bool newClient
  keybusChanged,    \* dsc.keybusChanged
  keybusConnected,  \* dsc.keybusConnected
  bufferOverflow,   \* dsc.bufferOverflow
  evSeq,            \* events the decoder has produced (the last event's number)
  ovf,              \* per overflow occurrence: the session open when the decoder raised
                    \* it (0 = none) and the notices written for it
  unnotified,       \* Keybus transitions reported since the last notification
  notice,           \* what the last statement printed on Serial about the Keybus
  pending,          \* connection requests waiting in the server
  open,             \* accepted sockets not yet stopped
  nsess,            \* connections accepted so far
  connected,        \* ipClient.connected()
  sent,             \* bytes the client of this session has sent, in order
  rxBuf,            \* bytes received and not yet read (ipClient.available())
  keys,             \* bytes passed to dsc.write in this session, in order
  short,            \* a negotiation read of this session found fewer than 3 bytes
  out,              \* messages written to the client of this session, in order
  iterPolls,        \* dsc.loop() calls in the current iteration
  lim,              \* what the environment does at most in this run (fixed by Init)
  millis,           \* millis() as printTimestamp reads it
  stamp,            \* what printTimestamp printed
  polled            \* what the poll of the iteration that just ended found and wrote

vars == <<pc, ipClient, newClient, keybusChanged, keybusConnected, bufferOverflow,
          evSeq, ovf, unnotified, notice, pending, open, nsess, connected,
          sent, rxBuf, keys, short, out, iterPolls, lim, millis, stamp,
          polled>>

dscVars == <<keybusChanged, keybusConnected, bufferOverflow, evSeq, ovf, unnotified>>
netVars == <<pending, open, nsess, connected>>
streamVars == <<sent, rxBuf, keys, short>>

\* ---------------------------------------------------------------- helpers
Min(a, b) == IF a < b THEN a ELSE b

B2N(b) == IF b THEN 1 ELSE 0

Drop(s, n) == SubSeq(s, n + 1, Len(s))

IsPrefix(s, t) == Len(s) <= Len(t) /\ SubSeq(t, 1, Len(s)) = s

\* static_cast<char>(ipClient.read()): the low 8 bits of the int read() returns
ToChar(v) == v % 256

CRLF == "\r\n"

\* The pieces the print calls of one message write, in order: lines 131, 150,
\* 156-163 and 185-190.  What the decoder and printTimestamp print is named, not
\* spelled out.
Text(k) ==
  CASE k = "greeting" -> <<"Connected to DSC Keybus Reader", CRLF>>
    [] k = "overflow" -> <<"Keybus buffer overflow">>
    [] k = "panel" -> <<"timestamp", " ", "panelBinary", " [", "panelCommand", "] ",
                        "panelMessage", CRLF>>
    [] k = "module" -> <<"timestamp", " ", "moduleBinary", " ", "moduleMessage", CRLF>>

\* A message written to the client: its kind, the number of the decoder event
\* (or overflow occurrence) it reports, and its text.
Msg(k, id) == [k |-> k, id |-> id, text |-> Text(k)]

\* The decoder raises bufferOverflow: one more occurrence
Raise(o, yes) == IF yes THEN Append(o, [from |-> ipClient, notices |-> 0]) ELSE o

\* The notice is written for the occurrence that stands (the last one raised)
Notify(o, yes) ==
  IF yes /\ Len(o) > 0
    THEN [o EXCEPT ![Len(o)].notices = @ + 1]
    ELSE o

\* ---------------------------------------------------------------- decoder
\* One call of dsc.loop(): r is its return value, flip whether it found the
\* Keybus connection changed, raised whether the buffer overflowed since the last call.
DscLoopCan(r, flip, raised) ==
  /\ r => evSeq < lim.events
  /\ flip => unnotified < lim.unnotified
  /\ raised => Len(ovf) < lim.overflows

\* ------------------------------------------------------------------- loop
\* line 113: dsc.loop() in the outer loop, its result unused
OuterPoll ==
  /\ pc = "L113"
  /\ \E r, flip, raised \in BOOLEAN :
       /\ DscLoopCan(r, flip, raised)
       /\ keybusConnected' = (keybusConnected # flip)
       /\ keybusChanged' = (keybusChanged \/ flip)
       /\ unnotified' = unnotified + B2N(flip)
       /\ bufferOverflow' = (bufferOverflow \/ raised)
       /\ ovf' = Raise(ovf, raised)
       /\ evSeq' = evSeq + B2N(r)
  /\ iterPolls' = iterPolls + 1
  /\ pc' = "L116"
  /\ UNCHANGED <<ipClient, newClient, notice, out, lim, millis, stamp, polled>>
  /\ UNCHANGED netVars
  /\ UNCHANGED streamVars

\* lines 116-120: the Keybus connection notification
KeybusStatus ==
  /\ pc = "L116"
  /\ IF keybusChanged
       THEN /\ keybusChanged' = FALSE
            /\ notice' = IF keybusConnected THEN "Keybus connected" ELSE "Keybus disconnected"
            /\ unnotified' = 0
       ELSE /\ notice' = "none"
            /\ UNCHANGED <<keybusChanged, unnotified>>
  /\ pc' = "L122"
  /\ UNCHANGED <<ipClient, newClient, keybusConnected, bufferOverflow, evSeq, ovf,
                 out, iterPolls, lim, millis, stamp, polled>>
  /\ UNCHANGED netVars
  /\ UNCHANGED streamVars

\* lines 122-123: ipClient = ipServer.available(); if (ipClient)
Accept ==
  /\ pc = "L122"
  /\ IF pending > 0
       THEN /\ ipClient' = nsess + 1
            /\ nsess' = nsess + 1
            /\ open' = open \cup {nsess + 1}
            /\ pending' = pending - 1
            /\ connected' = TRUE
            /\ pc' = "L126"
            /\ UNCHANGED iterPolls
       ELSE /\ ipClient' = 0
            /\ pc' = "L113"
            /\ iterPolls' = 0
            /\ UNCHANGED netVars
  /\ notice' = "none"
  /\ UNCHANGED <<newClient, out, lim, millis, stamp, polled>>
  /\ UNCHANGED dscVars
  /\ UNCHANGED streamVars

\* No poll result is at hand: the iteration has not polled yet
NoPoll == [done |-> FALSE, r |-> FALSE, m |-> FALSE, ovfl |-> FALSE, wrote |-> <<>>]

\* line 126: while (ipClient.connected())
WhileConnected ==
  /\ pc = "L126"
  /\ IF connected
       THEN pc' = "L129" /\ iterPolls' = 0
       ELSE pc' = "L176" /\ UNCHANGED iterPolls
  /\ polled' = NoPoll
  /\ UNCHANGED <<ipClient, newClient, notice, out, lim, millis, stamp>>
  /\ UNCHANGED dscVars
  /\ UNCHANGED netVars
  /\ UNCHANGED streamVars

\* (mutant) the greeting does not clear newClient
Greet_NoClear ==
  /\ pc = "L129"
  /\ IF newClient
       THEN out' = Append(out, Msg("greeting", 0))
       ELSE UNCHANGED out
  /\ pc' = "L136"
  /\ UNCHANGED <<ipClient, newClient, notice, iterPolls, lim, millis, stamp, polled>>
  /\ UNCHANGED dscVars
  /\ UNCHANGED netVars
  /\ UNCHANGED streamVars

\* lines 129-133: the greeting, once per client
Greet ==
  /\ pc = "L129"
  /\ IF newClient
       THEN /\ out' = Append(out, Msg("greeting", 0))
            /\ newClient' = FALSE
       ELSE UNCHANGED <<out, newClient>>
  /\ pc' = "L136"
  /\ UNCHANGED <<ipClient, notice, iterPolls, lim, millis, stamp, polled>>
  /\ UNCHANGED dscVars
  /\ UNCHANGED netVars
  /\ UNCHANGED streamVars

\* (mutant) the negotiation loop stops one byte early: i < 2
ReadNegotiation_TwoBytes(buf) == Drop(buf, Min(NegotiationLen - 1, Len(buf)))

\* line 138: for (byte i = 0; i < 3; i++) ipClient.read();
\* read() removes a byte when one is there and returns -1 when none is.
ReadNegotiation(buf) == Drop(buf, Min(NegotiationLen, Len(buf)))

\* (mutant) the loop waits for a byte: while (!ipClient.available()) ;
SessionRead_Blocking ==
  /\ pc = "L136"
  /\ Len(rxBuf) > 0
  /\ IF Head(rxBuf) = IAC
       THEN /\ rxBuf' = ReadNegotiation(rxBuf)
            /\ short' = (short \/ Len(rxBuf) < NegotiationLen)
            /\ UNCHANGED keys
       ELSE /\ rxBuf' = Tail(rxBuf)
            /\ keys' = Append(keys, ToChar(Head(rxBuf)))
            /\ UNCHANGED short
  /\ pc' = "L145"
  /\ UNCHANGED <<ipClient, newClient, notice, out, iterPolls, sent, lim, millis, stamp, polled>>
  /\ UNCHANGED dscVars
  /\ UNCHANGED netVars

\* (mutant) every byte that is available is forwarded in one iteration
SessionRead_Drain ==
  /\ pc = "L136"
  /\ IF Len(rxBuf) > 0
       THEN IF Head(rxBuf) = IAC
              THEN /\ rxBuf' = ReadNegotiation(rxBuf)
                   /\ short' = (short \/ Len(rxBuf) < NegotiationLen)
                   /\ UNCHANGED keys
              ELSE /\ rxBuf' = <<>>
                   /\ keys' = keys \o rxBuf
                   /\ UNCHANGED short
       ELSE UNCHANGED <<rxBuf, keys, short>>
  /\ pc' = "L145"
  /\ UNCHANGED <<ipClient, newClient, notice, out, iterPolls, sent, lim, millis, stamp, polled>>
  /\ UNCHANGED dscVars
  /\ UNCHANGED netVars

\* lines 136-143: one inbound byte, or one negotiation sequence
SessionRead ==
  /\ pc = "L136"
  /\ IF Len(rxBuf) > 0
       THEN IF Head(rxBuf) = IAC
              THEN /\ rxBuf' = ReadNegotiation(rxBuf)
                   /\ short' = (short \/ Len(rxBuf) < NegotiationLen)
                   /\ UNCHANGED keys
              ELSE /\ rxBuf' = Tail(rxBuf)
                   /\ keys' = Append(keys, ToChar(Head(rxBuf)))
                   /\ UNCHANGED short
       ELSE UNCHANGED <<rxBuf, keys, short>>
  /\ pc' = "L145"
  /\ UNCHANGED <<ipClient, newClient, notice, out, iterPolls, sent, lim, millis, stamp, polled>>
  /\ UNCHANGED dscVars
  /\ UNCHANGED netVars

\* (mutant) the module line is written before the panel line
PollOutput_ModuleFirst(r, ovfl, conn, m, occ) ==
  IF r
    THEN (IF ovfl THEN <<Msg("overflow", occ)>> ELSE <<>>)
         \o (IF m THEN <<Msg("module", evSeq + 2)>> ELSE <<>>)
         \o (IF conn THEN <<Msg("panel", evSeq + 1)>> ELSE <<>>)
    ELSE IF conn /\ m THEN <<Msg("module", evSeq + 1)>> ELSE <<>>

\* (mutant) the overflow notice is written after the panel and module lines
PollOutput_OverflowLast(r, ovfl, conn, m, occ) ==
  IF r
    THEN (IF conn THEN <<Msg("panel", evSeq + 1)>> ELSE <<>>)
         \o (IF m THEN <<Msg("module", evSeq + 2)>> ELSE <<>>)
         \o (IF ovfl THEN <<Msg("overflow", occ)>> ELSE <<>>)
    ELSE IF conn /\ m THEN <<Msg("module", evSeq + 1)>> ELSE <<>>

\* (mutant) the overflow notice is written whatever dsc.loop() returned
PollOutput_NoticeAnyPoll(r, ovfl, conn, m, occ) ==
  (IF ovfl THEN <<Msg("overflow", occ)>> ELSE <<>>)
  \o (IF r
        THEN (IF conn THEN <<Msg("panel", evSeq + 1)>> ELSE <<>>)
             \o (IF m THEN <<Msg("module", evSeq + 2)>> ELSE <<>>)
        ELSE IF conn /\ m THEN <<Msg("module", evSeq + 1)>> ELSE <<>>)

\* (mutant) the overflow flag is left set after the notice
AfterNotice_Kept(r, ovfl) == ovfl

\* lines 149-152: dsc.bufferOverflow after the poll's output: false once the
\* notice is written (and whenever dsc.loop() returned true)
AfterNotice(r, ovfl) == IF r THEN FALSE ELSE ovfl

\* lines 149-167 and 171: what one in-session poll writes to the client.
\* r: dsc.loop() returned true; ovfl, conn: bufferOverflow and keybusConnected
\* after the poll; m: module data is there, so that handleModule() returns true
\* when it is called; occ: the overflow occurrence that stands.
PollOutput(r, ovfl, conn, m, occ) ==
  IF r
    THEN (IF ovfl THEN <<Msg("overflow", occ)>> ELSE <<>>)
         \o (IF conn THEN <<Msg("panel", evSeq + 1)>> ELSE <<>>)
         \o (IF m THEN <<Msg("module", evSeq + 2)>> ELSE <<>>)
    ELSE IF conn /\ m THEN <<Msg("module", evSeq + 1)>> ELSE <<>>

\* lines 145-173: dsc.loop() in the session, the output, yield()
SessionPoll ==
  /\ pc = "L145"
  /\ \E r, flip, raised, m \in BOOLEAN :
       LET conn == (keybusConnected # flip)
           ovfl == (bufferOverflow \/ raised)
           called == r \/ conn      \* handleModule() is called at line 167 or 171
           wrote == PollOutput(r, ovfl, conn, m, Len(Raise(ovf, raised)))
       IN  /\ DscLoopCan(r, flip, raised)
           /\ (called /\ m) => evSeq + B2N(r) < lim.events
           /\ keybusConnected' = conn
           /\ keybusChanged' = (keybusChanged \/ flip)
           /\ unnotified' = unnotified + B2N(flip)
           /\ ovf' = Notify(Raise(ovf, raised), r /\ ovfl)
           /\ evSeq' = evSeq + B2N(r) + B2N(called /\ m)
           /\ bufferOverflow' = AfterNotice(r, ovfl)
           /\ out' = out \o wrote
           /\ polled' = [done |-> TRUE, r |-> r, m |-> m, ovfl |-> ovfl, wrote |-> wrote]
  /\ iterPolls' = iterPolls + 1
  /\ pc' = "L126"
  /\ UNCHANGED <<ipClient, newClient, notice, lim, millis, stamp>>
  /\ UNCHANGED netVars
  /\ UNCHANGED streamVars

\* (mutant) the session is left without ipClient.stop()
Teardown_NoStop ==
  /\ pc = "L176"
  /\ ipClient' = 0
  /\ newClient' = TRUE
  /\ connected' = FALSE
  /\ sent' = <<>>
  /\ rxBuf' = <<>>
  /\ keys' = <<>>
  /\ short' = FALSE
  /\ pc' = "L113"
  /\ iterPolls' = 0
  /\ out' = <<>>
  /\ UNCHANGED <<notice, pending, nsess, open, lim, millis, stamp, polled>>
  /\ UNCHANGED dscVars

\* (mutant) the session is left without newClient = true
Teardown_NoRearm ==
  /\ pc = "L176"
  /\ open' = open \ {ipClient}
  /\ ipClient' = 0
  /\ connected' = FALSE
  /\ sent' = <<>>
  /\ rxBuf' = <<>>
  /\ keys' = <<>>
  /\ short' = FALSE
  /\ pc' = "L113"
  /\ iterPolls' = 0
  /\ out' = <<>>
  /\ UNCHANGED <<notice, pending, nsess, newClient, lim, millis, stamp, polled>>
  /\ UNCHANGED dscVars

\* lines 176-178: ipClient.stop(); newClient = true
Teardown ==
  /\ pc = "L176"
  /\ open' = open \ {ipClient}
  /\ ipClient' = 0
  /\ newClient' = TRUE
  /\ connected' = FALSE
  /\ sent' = <<>>
  /\ rxBuf' = <<>>
  /\ keys' = <<>>
  /\ short' = FALSE
  /\ pc' = "L113"
  /\ iterPolls' = 0
  /\ out' = <<>>
  /\ UNCHANGED <<notice, pending, nsess, lim, millis, stamp, polled>>
  /\ UNCHANGED dscVars

\* ------------------------------------------------------------ environment
\* a telnet client asks for a connection
ClientConnect ==
  /\ nsess + pending < lim.sessions
  /\ pending' = pending + 1
  /\ UNCHANGED <<pc, ipClient, newClient, notice, out, iterPolls, open, nsess, connected, lim, millis, stamp, polled>>
  /\ UNCHANGED dscVars
  /\ UNCHANGED streamVars

\* a byte of the connected client arrives
ClientSend ==
  /\ ipClient # 0
  /\ connected
  /\ Len(sent) < lim.bytes
  /\ \E b \in lim.alphabet :
       /\ sent' = Append(sent, b)
       /\ rxBuf' = Append(rxBuf, b)
  /\ UNCHANGED <<pc, ipClient, newClient, notice, out, iterPolls, keys, short, lim, millis, stamp, polled>>
  /\ UNCHANGED dscVars
  /\ UNCHANGED netVars

\* the connected client closes its connection
ClientDisconnect ==
  /\ ipClient # 0
  /\ connected
  /\ connected' = FALSE
  /\ UNCHANGED <<pc, ipClient, newClient, notice, out, iterPolls, pending, open, nsess, lim, millis, stamp, polled>>
  /\ UNCHANGED dscVars
  /\ UNCHANGED streamVars

\* ----------------------------------------------------------- printTimestamp
NoStamp == [printed |-> FALSE, pad |-> 0, hundredths |-> 0]

\* lines 198-201: the leading spaces, by timeStamp = millis() / 1000.0
Pad(ms) ==
  IF ms < 10 * 1000 THEN 4
  ELSE IF ms < 100 * 1000 THEN 3
  ELSE IF ms < 1000 * 1000 THEN 2
  ELSE IF ms < 10000 * 1000 THEN 1
  ELSE 0

\* line 202: ipClient.print(timeStamp, 2) rounds to the nearest hundredth of a
\* second.  A value half way between two hundredths goes up or down with the
\* float that holds it.
Rounded(ms) ==
  IF ms % 10 = 5 THEN {ms \div 10, ms \div 10 + 1} ELSE {(ms + 5) \div 10}

\* lines 196-204: printTimestamp
PrintTimestamp ==
  /\ ~stamp.printed
  /\ \E h \in Rounded(millis) :
       stamp' = [printed |-> TRUE, pad |-> Pad(millis), hundredths |-> h]
  /\ UNCHANGED <<pc, ipClient, newClient, notice, out, iterPolls, lim, millis, polled>>
  /\ UNCHANGED dscVars
  /\ UNCHANGED netVars
  /\ UNCHANGED streamVars

\* ------------------------------------------------------------ specification
Start ==
  /\ pc = "L113"
  /\ ipClient = 0
  /\ newClient = TRUE
  /\ keybusChanged = FALSE
  /\ keybusConnected = FALSE
  /\ bufferOverflow = FALSE
  /\ evSeq = 0
  /\ ovf = <<>>
  /\ unnotified = 0
  /\ notice = "none"
  /\ pending = 0
  /\ open = {}
  /\ nsess = 0
  /\ connected = FALSE
  /\ sent = <<>>
  /\ rxBuf = <<>>
  /\ keys = <<>>
  /\ short = FALSE
  /\ out = <<>>
  /\ iterPolls = 0
  /\ stamp = NoStamp
  /\ polled = NoPoll

\* a run in which the decoder is busy and the clients type little
Init ==
  /\ Start
  /\ millis = 0
  /\ lim = [sessions |-> MaxSessions, bytes |-> MaxBytes, events |-> MaxEvents,
            overflows |-> MaxOverflows, unnotified |-> MaxUnnotified,
            alphabet |-> OneKey]

\* a run in which the clients type and the decoder has nothing to report
KeyInit ==
  /\ Start
  /\ millis = 0
  /\ lim = [sessions |-> MaxSessions, bytes |-> MaxKeyBytes, events |-> 0,
            overflows |-> 0, unnotified |-> 0, alphabet |-> Bytes]

\* a run in which clients come, type and leave and the decoder reports little
CalmInit ==
  /\ Start
  /\ millis = 0
  /\ lim = [sessions |-> MaxSessions, bytes |-> MaxBytes, events |-> MaxCalm,
            overflows |-> MaxOverflows, unnotified |-> MaxCalm,
            alphabet |-> OneKey]

\* The clock values printTimestamp is tried on: around each padding threshold,
\* and the values 7.00 s, 42.50 s, 234.10 s, 5234.99 s and 12345.00 s
StampInputs ==
  {7000, 42500, 234100, 5234990, 12345000}
    \cup {t + d : t \in {10000, 100000, 1000000, 10000000},
                  d \in (0 - StampWindow)..StampWindow}

\* printTimestamp alone, on a clock value of StampInputs
StampInit ==
  /\ Start
  /\ millis \in StampInputs
  /\ lim = [sessions |-> 0, bytes |-> 0, events |-> 0, overflows |-> 0,
            unnotified |-> 0, alphabet |-> {}]

StampNext == PrintTimestamp

LoopStep ==
  \/ OuterPoll
  \/ KeybusStatus
  \/ Accept
  \/ WhileConnected
  \/ Greet
  \/ SessionRead
  \/ SessionPoll
  \/ Teardown

Next ==
  \/ OuterPoll
  \/ KeybusStatus
  \/ Accept
  \/ WhileConnected
  \/ Greet
  \/ SessionRead
  \/ SessionPoll
  \/ Teardown
  \/ ClientConnect
  \/ ClientSend
  \/ ClientDisconnect

Spec == Init /\ [][Next]_vars

KeySpec == KeyInit /\ [][Next]_vars

StampSpec == StampInit /\ [][StampNext]_vars

\* loop() is called again as soon as it returns and none of its statements waits
FairSpec == CalmInit /\ [][Next]_vars /\ WF_vars(LoopStep)

\* ------------------------------------------------------------------ claims
\* What a stream leaves for the keypad when every 0xFF and the two bytes after
\* it are dropped, reading the stream from its start.
RECURSIVE Forwarded(_)
Forwarded(stream) ==
  IF stream = <<>> THEN <<>>
  ELSE IF Head(stream) = IAC
         THEN Forwarded(Drop(stream, Min(3, Len(stream))))
         ELSE <<Head(stream)>> \o Forwarded(Tail(stream))

\* The stream holds, after each 0xFF it starts a sequence with, the two bytes
\* that follow it.
RECURSIVE Complete(_)
Complete(stream) ==
  IF stream = <<>> THEN TRUE
  ELSE IF Head(stream) = IAC
         THEN Len(stream) >= 3 /\ Complete(Drop(stream, 3))
         ELSE Complete(Tail(stream))

\* C1: however the bytes of the client's stream arrive, a 0xFF and the two
\* bytes that follow it are never passed to dsc.write, and every other byte is
\* passed once, unchanged and in stream order: once every 0xFF of the stream
\* has its two bytes after it, the keystrokes written are a prefix of the
\* filtered stream, and all of it when the stream is read to its end.
C1_NegotiationNeverForwarded ==
  Complete(sent) =>
    /\ IsPrefix(keys, Forwarded(sent))
    /\ rxBuf = <<>> => keys = Forwarded(sent)

TelnetScenario == <<255, 251, 49, 50>>

\* C2 as stated: the client's bytes 0xFF 0xFB '1' '2' reach the decoder as the
\* keystrokes '1' '2'.
C2_KeysOneTwo ==
  (sent = TelnetScenario /\ rxBuf = <<>>) => keys = <<49, 50>>

\* C2 amended: the client's bytes 0xFF 0xFB '1' '2' reach the decoder as the
\* keystroke '2' alone when the negotiation read finds its three bytes; when it
\* finds fewer, the bytes it did not find are forwarded when they arrive, so
\* the keystrokes are '1' '2' or 0xFB '1' '2'.  0xFF is never forwarded.
C2_KeysTwoOnly ==
  (sent = TelnetScenario /\ rxBuf = <<>>) =>
     IF short THEN keys \in {<<49, 50>>, <<251, 49, 50>>} ELSE keys = <<50>>

C2_Witness ==
  /\ sent = TelnetScenario
  /\ rxBuf = <<>>
  /\ ~short
  /\ keys = <<50>>

\* C3: at most one client session is open at any time, and the server is asked
\* for a client (line 122) only when none is open, so a request that arrives
\* during a session waits until the session is stopped.
C3_SingleSession ==
  /\ Cardinality(open) <= 1
  /\ ipClient # 0 => open = {ipClient}
  /\ pc = "L122" => (open = {} /\ ipClient = 0)

C3_Witness ==
  /\ ipClient = 1
  /\ open = {1}
  /\ connected
  /\ pending = 1
  /\ pc = "L145"

\* The messages a step adds to the client's stream
Appended == IF IsPrefix(out, out') THEN Drop(out', Len(out)) ELSE <<>>

IsEvent(e) == e.k \in {"panel", "module"}

\* C4: the panel and module lines are written in the order the decoder
\* produced the events and no event is written twice, in one session or across
\* sessions: the lines a step writes report events the decoder produced in that
\* very step (numbers above every earlier one), in increasing order.
C4_EventOrder ==
  [][LET new == SelectSeq(Appended, IsEvent)
     IN  \A i \in DOMAIN new :
            /\ new[i].id > evSeq
            /\ new[i].id <= evSeq'
            /\ \A j \in DOMAIN new : i < j => new[i].id < new[j].id]_vars

C4_Witness ==
  /\ nsess = 2
  /\ Len(out) = 3
  /\ out[2] = Msg("panel", 1)
  /\ out[3] = Msg("module", 2)

\* C5: the overflow notice is written at most once for each occurrence of
\* bufferOverflow, and the step that writes it leaves bufferOverflow false.
C5_OverflowOnce ==
  /\ [](\A i \in DOMAIN ovf : ovf[i].notices <= 1)
  /\ [][(\E i \in DOMAIN Appended : Appended[i].k = "overflow") => ~bufferOverflow']_vars

C5_Witness ==
  /\ Len(ovf) = 1
  /\ ovf[1].notices = 1
  /\ ~bufferOverflow
  /\ \E i \in DOMAIN out : out[i] = Msg("overflow", 1)

\* C6: every Keybus transition the decoder reports is notified exactly once,
\* in any loop state: when lines 116-120 print the notification, exactly one
\* transition has been reported since the last notification.
C6_OneNoticePerTransition ==
  (pc = "L116" /\ keybusChanged) => unnotified = 1

\* C7: once the session's socket is disconnected the loop stops it, sets
\* newClient and goes back to waiting for a client, and every session starts
\* with newClient true.
C7_TeardownRearms ==
  /\ []((ipClient # 0 /\ out = <<>>) => newClient)
  /\ ((ipClient # 0 /\ ~connected) ~> (ipClient = 0 /\ open = {} /\ newClient /\ pc = "L113"))

C7_Witness ==
  /\ nsess = 2
  /\ ipClient = 2
  /\ pc = "L129"
  /\ out = <<>>
  /\ newClient

\* C8: dsc.loop() is called once in every iteration of the outer loop and once
\* in every iteration of the session loop, whatever the client does, and the
\* calls never end.
C8_PollsForever ==
  /\ [](pc \in {"L116", "L122", "L126", "L176"} => iterPolls = 1)
  /\ [](pc \in {"L113", "L129", "L136", "L145"} => iterPolls = 0)
  /\ []<>(iterPolls = 0)
  /\ []<>(iterPolls = 1)

C8_Witness ==
  /\ ipClient # 0
  /\ connected
  /\ pc = "L126"
  /\ iterPolls = 1
  /\ keys # <<>>

\* C9: what the decoder reports while no client session is open is never
\* written to a client: every overflow notice in a session's stream is for an
\* occurrence the decoder raised during that session.
C9_AbsentClientDiscards ==
  \A i \in DOMAIN out :
     out[i].k = "overflow" => ovf[out[i].id].from = ipClient

\* C10: in every session the greeting is written at most once, before any
\* other message of the session and before any keystroke is forwarded.
C10_GreetingFirst ==
  /\ \A i \in DOMAIN out : (out[i].k = "greeting") <=> (i = 1)
  /\ keys # <<>> => out # <<>>

C10_Witness ==
  /\ nsess = 2
  /\ keys # <<>>
  /\ Len(out) >= 2
  /\ out[1].k = "greeting"

\* Position p of the stream lies in a negotiation sequence: a 0xFF that starts
\* one, reading the stream from its start, or one of the two bytes after it.
RECURSIVE InSequence(_, _)
InSequence(stream, p) ==
  IF stream = <<>> \/ p < 1 THEN FALSE
  ELSE IF Head(stream) = IAC
         THEN p <= 3 \/ InSequence(Drop(stream, Min(3, Len(stream))), p - 3)
         ELSE p > 1 /\ InSequence(Tail(stream), p - 1)

\* C11: an iteration that finds inbound bytes removes the whole negotiation
\* sequence when the head byte is 0xFF and calls dsc.write for none of its
\* three bytes, also when the sequence arrives in pieces; otherwise it removes
\* one byte and passes that byte to dsc.write.
C11_FixedLengthRead ==
  [][(pc = "L136" /\ pc' = "L145" /\ Len(rxBuf) > 0) =>
       IF Head(rxBuf) = IAC
         THEN /\ keys' = keys
              /\ Len(rxBuf') = Len(rxBuf) - Min(3, Len(rxBuf))
         ELSE /\ Len(rxBuf') = Len(rxBuf) - 1
              /\ keys' = Append(keys, Head(rxBuf))
              /\ ~InSequence(sent, Len(sent) - Len(rxBuf) + 1)]_vars

\* C12: every message written to the client (greeting, overflow notice, panel
\* line, module line) ends with "\r\n" before the next message starts.
C12_LinesTerminated ==
  \A i \in DOMAIN out : out[i].text[Len(out[i].text)] = CRLF

\* Decimal digits of a natural number
RECURSIVE Digits(_)
Digits(n) == IF n < 10 THEN 1 ELSE 1 + Digits(n \div 10)

\* Characters of the printed field: spaces, integer part, ".dd" and ":"
Width(st) == st.pad + Digits(st.hundredths \div 100) + 3 + 1

\* C13: printTimestamp writes 4/3/2/1/0 leading spaces for a value below
\* 10/100/1000/10000 s or not, then the value rounded to two decimals and a
\* colon, and the field is always 9 characters wide, also for a value that
\* rounds up across a power of ten.  (Stated for the clock values that are not
\* half way between two hundredths, whose rounding does not depend on the float.)
C13_StampWidth ==
  (stamp.printed /\ millis % 10 # 5) =>
    /\ stamp.pad = (IF millis \div 1000 < 10 THEN 4
                    ELSE IF millis \div 1000 < 100 THEN 3
                    ELSE IF millis \div 1000 < 1000 THEN 2
                    ELSE IF millis \div 1000 < 10000 THEN 1 ELSE 0)
    /\ stamp.hundredths \in {millis \div 10, millis \div 10 + 1}
    /\ Width(stamp) = 9

\* C14: at most one keystroke is passed to dsc.write between two calls of
\* dsc.loop() (an iteration takes one byte, or one negotiation sequence, from
\* the stream), and only for an open client session: a keystroke is written
\* only by the read step of lines 136-143, one at a time, before the poll of
\* its iteration.
C14_OneKeyPerPoll ==
  [][/\ (keys' # keys /\ keys' # <<>>) =>
          /\ pc = "L136" /\ pc' = "L145"
          /\ iterPolls = 0
          /\ ipClient # 0 /\ ipClient \in open
          /\ keys' = Append(keys, Head(rxBuf))
          /\ rxBuf' = Tail(rxBuf)
     /\ (pc = "L136" /\ pc' = "L145") =>
          /\ Len(rxBuf) - Len(rxBuf') <= 3
          /\ keys' = keys \/ Len(rxBuf) - Len(rxBuf') = 1]_vars

C14_Witness ==
  /\ pc = "L145"
  /\ iterPolls = 0
  /\ keys = <<49, 50>>
  /\ rxBuf # <<>>

\* The kinds of a sequence of messages
Kinds(msgs) == [i \in DOMAIN msgs |-> msgs[i].k]

\* C15: when dsc.loop() returns true in a session iteration, the iteration
\* writes the overflow notice (if bufferOverflow is set), then the panel line
\* (if keybusConnected), then the module line (if there is module data), at
\* most one of each, and the poll step forwards no keystroke: the keystroke of
\* the iteration was written before it.
C15_OutputOrder ==
  /\ []((polled.done /\ polled.r) =>
          /\ Kinds(polled.wrote) =
                (IF polled.ovfl THEN <<"overflow">> ELSE <<>>)
                \o (IF keybusConnected THEN <<"panel">> ELSE <<>>)
                \o (IF polled.m THEN <<"module">> ELSE <<>>)
          /\ Len(out) >= Len(polled.wrote)
          /\ Drop(out, Len(out) - Len(polled.wrote)) = polled.wrote)
  /\ [][pc = "L145" => keys' = keys]_vars

C15_Witness ==
  /\ polled.done
  /\ polled.r
  /\ Kinds(polled.wrote) = <<"overflow", "panel", "module">>
  /\ keys # <<>>

\* C16: when dsc.loop() returns false in a session iteration, the iteration
\* writes one module line if keybusConnected and there is module data, and
\* nothing otherwise: no panel line, and no overflow notice even with
\* bufferOverflow set, which stays set.
C16_NoPanelData ==
  (polled.done /\ ~polled.r) =>
     /\ Kinds(polled.wrote) =
           (IF keybusConnected /\ polled.m THEN <<"module">> ELSE <<>>)
     /\ bufferOverflow = polled.ovfl
     /\ Len(out) >= Len(polled.wrote)
     /\ Drop(out, Len(out) - Len(polled.wrote)) = polled.wrote

C16_Witness ==
  /\ polled.done
  /\ ~polled.r
  /\ polled.ovfl
  /\ bufferOverflow
  /\ Kinds(polled.wrote) = <<"module">>

\* C17: while keybusConnected is false no panel line and no module line is
\* written, whatever dsc.loop() and handleModule() return.
C17_QuietWhileDisconnected ==
  (polled.done /\ ~keybusConnected) =>
     \A i \in DOMAIN polled.wrote : ~IsEvent(polled.wrote[i])

TypeOK ==
  /\ pc \in {"L113", "L116", "L122", "L126", "L129", "L136", "L145", "L176"}
  /\ ipClient \in 0..MaxSessions
  /\ evSeq \in 0..lim.events
  /\ Len(sent) <= lim.bytes
====
